---- MODULE Spec2Model ----
(***************************************************************************)
(* SimulacroRestaurante: a hash-routed single page application over a      *)
(* mock REST backend.  The model covers the authentication service, the   *)
(* JsonService wrapper, the menu view's cart and the router/render pair.   *)
(***************************************************************************)
EXTENDS Integers, Sequences, FiniteSets, TLC

VARIABLES
    users,       \* backend collection /users, in insertion order
    session,     \* localStorage['activeUser'] (NoUser when the key is absent)
    hash,        \* window.location.hash
    lg,          \* the login() call of the login form
    rg,          \* the register() calls, one per open registration form
    products,    \* backend collection /products, by id
    orders,      \* backend collection /orders, in insertion order
    svc,         \* a JsonService method call made by a caller
    pending,     \* hashchange/load events queued for the router
    inflight,    \* router() calls awaiting their view function, by slot
    mount,       \* what the #app element shows
    uncaught,    \* an error has escaped router()
    storedCart,  \* localStorage['shoppingCart'] (NoCart when the key is absent)
    menu,        \* the closure state of the menu view on screen
    checkout     \* the handleConfirmOrder call awaiting createOrder

vars == <<users, session, hash, lg, rg, products, orders, svc,
          pending, inflight, mount, uncaught, storedCart, menu, checkout>>

authVars    == <<users, session, hash, lg, rg>>
serviceVars == <<products, orders, svc>>
routerVars  == <<pending, inflight, mount, uncaught>>
cartVars    == <<storedCart, menu, checkout>>

----------------------------------------------------------------------------
\* Bounds of the model.
MaxUsers == 4          \* records the user store may hold
NumForms == 2          \* registration forms (tabs) that may submit concurrently
MaxProducts == 3       \* products the catalog may hold
MaxOrders == 2         \* orders the backend may hold
MaxPending == 1        \* hashchange events that may be queued
MaxInflight == 2       \* router() calls that may await a view at once
MaxQty == 2            \* quantity a cart line may reach

Forms == 1..NumForms

Emails    == {"a@x", "b@x", "c@x"}
Passwords == {"p", "q"}
Roles     == {"admin", "user"}
\* Passwords typed into the registration forms.
RegPasswords == {"q"}

\* How a fetch() ends: a 2xx answer, a non-2xx answer, or a rejected promise.
Kinds == {"ok", "non2xx", "netfail"}
\* What the body of a non-2xx answer parses to: a JSON object, or no JSON.
ErrBodies == {"json_object", "not_json"}

NoUser == [none |-> TRUE]
NoCart == [saved |-> FALSE, cart |-> <<>>]
Saved(c) == [saved |-> TRUE, cart |-> c]
NoOrder == [none |-> TRUE]
NoMenu == [none |-> TRUE]
Free   == [none |-> TRUE]

Slots == 1..MaxInflight
NoView == [view |-> "none", navbar |-> FALSE]
IdleCheckout == [pc |-> "idle", order |-> NoOrder, stale |-> FALSE, kind |-> ""]

\* Messages of errors the code does not create itself.
NetworkErrorMsg == "TypeError: Failed to fetch"
JsonErrorMsg    == "SyntaxError: Unexpected token"

SeedUsers ==
    << [id |-> 1, email |-> "a@x", password |-> "p", role |-> "admin"],
       [id |-> 2, email |-> "b@x", password |-> "q", role |-> "user"] >>

----------------------------------------------------------------------------
\* The backend's answer to GET /users?email=e: the records whose email is e.
UsersByEmail(store, e) == SelectSeq(store, LAMBDA u : u.email = e)

\* const sessionUser = { ...user }; delete sessionUser.password
\* A session copy that keeps every field of the record.
SessionUserWithPassword(u) == u

SessionUser(u) == [f \in (DOMAIN u) \ {"password"} |-> u[f]]

Failure(msg) == [success |-> FALSE, error |-> msg, user |-> NoUser]
Success(u)   == [success |-> TRUE, error |-> "", user |-> u]

\* login() without its password comparison.
LoginResultNoPasswordCheck(kind, found, password) ==
    IF kind # "ok" THEN Failure("Ocurrio un error inesperado")
    ELSE IF Len(found) = 0 THEN Failure("Usuario no encontrado")
    ELSE Success(SessionUser(found[1]))

\* login(email, password) once its GET has ended with `kind` and body `found`.
LoginResult(kind, found, password) ==
    IF kind # "ok" THEN Failure("Ocurrio un error inesperado")
    ELSE IF Len(found) = 0 THEN Failure("Usuario no encontrado")
    ELSE IF found[1].password # password THEN Failure("Contrasena incorrecta")
    ELSE Success(SessionUser(found[1]))

IdleLogin == [pc |-> "idle", email |-> "", password |-> "", kind |-> "",
              result |-> Failure("")]

\* handleLogin up to the await: both fields filled, login() issues its GET.
LoginSubmit ==
    /\ lg.pc # "fetching"
    /\ \E e \in Emails, p \in Passwords :
         lg' = [pc |-> "fetching", email |-> e, password |-> p, kind |-> "",
                result |-> Failure("")]
    /\ UNCHANGED <<users, session, hash, rg, serviceVars, routerVars, cartVars>>

\* A login() that ends the session when it fails.
LoginRespondDroppingSession ==
    /\ lg.pc = "fetching"
    /\ \E kind \in Kinds :
         LET res == LoginResult(kind, UsersByEmail(users, lg.email), lg.password)
         IN /\ lg' = [lg EXCEPT !.pc = "returned", !.kind = kind, !.result = res]
            /\ session' = IF res.success THEN res.user ELSE NoUser
    /\ UNCHANGED <<users, hash, rg, serviceVars, routerVars, cartVars>>

\* login() from the end of its fetch to its return.
LoginRespond ==
    /\ lg.pc = "fetching"
    /\ \E kind \in Kinds :
         LET res == LoginResult(kind, UsersByEmail(users, lg.email), lg.password)
         IN /\ lg' = [lg EXCEPT !.pc = "returned", !.kind = kind, !.result = res]
            /\ session' = IF res.success THEN res.user ELSE session
    /\ UNCHANGED <<users, hash, rg, serviceVars, routerVars, cartVars>>

\* Assigning window.location.hash: a hashchange event is queued when the
\* value changes.
CanSetHash(h) == h = hash \/ pending < MaxPending
SetHash(h) ==
    /\ hash' = h
    /\ pending' = IF h # hash THEN pending + 1 ELSE pending

\* getCurrentUser(): the parsed value of 'activeUser', null when absent.
GetCurrentUser == session

\* isAuthenticated(): !!getCurrentUser()
IsAuthenticated == GetCurrentUser # NoUser

\* isAdmin(): !!user && user.role === 'admin'
IsAdmin == GetCurrentUser # NoUser /\ GetCurrentUser.role = "admin"

\* A logout() that goes to #login and leaves the session key.
LogoutKeepingSession ==
    /\ CanSetHash("#login")
    /\ SetHash("#login")
    /\ UNCHANGED <<users, session, lg, rg, serviceVars, inflight, mount,
                   uncaught, cartVars>>

\* logout(): remove the session key, go to #login.
Logout ==
    /\ CanSetHash("#login")
    /\ session' = NoUser
    /\ SetHash("#login")
    /\ UNCHANGED <<users, lg, rg, serviceVars, inflight, mount, uncaught, cartVars>>

----------------------------------------------------------------------------
\* register(userData): the forms' calls, each with its own position.
IdleRegister == [pc |-> "idle", data |-> NoUser, posted |-> FALSE,
                 dupAtCall |-> FALSE, kind |-> "", result |-> Failure("")]

InFlight(f) == rg[f].pc \in {"checking", "posting"}

\* What register() does once its lookup GET has ended: "post" to go on to the
\* POST, or the result it returns.  checkRef.ok is never read: a non-2xx
\* answer is parsed like any other, and a body that is no array has no
\* length > 0.
RegisterAfterCheck(kind, body, found) ==
    IF kind = "netfail" THEN Failure(NetworkErrorMsg)
    ELSE IF kind = "non2xx" /\ body = "not_json" THEN Failure(JsonErrorMsg)
    ELSE IF kind = "ok" /\ Len(found) > 0
         THEN Failure("El correo electronico ya esta registrado")
    ELSE [post |-> TRUE]

\* What register() returns once its POST has ended.
RegisterAfterPost(kind, newUser) ==
    IF kind = "netfail" THEN Failure(NetworkErrorMsg)
    ELSE IF kind = "non2xx" THEN Failure("No se pudo crear el usuario")
    ELSE Success(newUser)

\* The record json-server stores for a POST /users.
NewUser(store, data) ==
    [id |-> Len(store) + 1, email |-> data.email,
     password |-> data.password, role |-> data.role]

\* The form's submit handler up to register()'s first await.
RegisterSubmit(f) ==
    /\ ~InFlight(f)
    /\ Len(users) + Cardinality({g \in Forms : InFlight(g)}) < MaxUsers
    /\ \E e \in Emails, p \in RegPasswords, r \in Roles :
         rg' = [rg EXCEPT ![f] =
                  [pc |-> "checking",
                   data |-> [email |-> e, password |-> p, role |-> r],
                   posted |-> FALSE,
                   dupAtCall |-> Len(UsersByEmail(users, e)) > 0,
                   kind |-> "", result |-> Failure("")]]
    /\ UNCHANGED <<users, session, hash, lg, serviceVars, routerVars, cartVars>>

\* register() from the end of the lookup GET to the POST or to its return;
\* a failed registration leaves the hash alone.
RegisterChecked(f) ==
    /\ rg[f].pc = "checking"
    /\ \E kind \in Kinds, body \in ErrBodies :
         LET r == RegisterAfterCheck(kind, body,
                                     UsersByEmail(users, rg[f].data.email))
         IN IF "post" \in DOMAIN r
            THEN rg' = [rg EXCEPT ![f].pc = "posting", ![f].posted = TRUE,
                                  ![f].kind = kind]
            ELSE rg' = [rg EXCEPT ![f].pc = "done", ![f].kind = kind,
                                  ![f].result = r]
    /\ UNCHANGED <<users, session, hash, lg, serviceVars, routerVars, cartVars>>

\* register() from the end of the POST to its return, and the form's
\* continuation: on success the hash becomes #login.
RegisterPosted(f) ==
    /\ rg[f].pc = "posting"
    /\ CanSetHash("#login")
    /\ \E kind \in Kinds :
         LET nu == NewUser(users, rg[f].data)
             r  == RegisterAfterPost(kind, nu)
         IN /\ users' = IF kind = "ok" THEN Append(users, nu) ELSE users
            /\ rg' = [rg EXCEPT ![f].pc = "done", ![f].result = r]
            /\ IF r.success THEN SetHash("#login")
               ELSE UNCHANGED <<hash, pending>>
    /\ UNCHANGED <<session, lg, serviceVars, inflight, mount, uncaught, cartVars>>

----------------------------------------------------------------------------
\* JsonService: one fetch per method, the outcome decided by how it ends.
Methods == {"getProducts", "getProductById", "getProductsIDs", "createProduct",
            "updateProduct", "deleteProduct", "createOrder", "getOrderById"}

ProductIds == 1..MaxProducts
Prices == {2, 3}

ProductNames == <<"pizza", "soda", "cake", "tea", "pie">>

SeedProducts ==
    [i \in {1, 2} |-> [id |-> i, name |-> ProductNames[i], price |-> i + 1,
                       stock |-> 5]]

ProductsErrorMsg == "Could not connect to the Products API."
OrdersErrorMsg   == "Could not connect to the Orders API."

Resolved(v)   == [resolved |-> TRUE, value |-> v, message |-> ""]
Rejected(msg) == [resolved |-> FALSE, value |-> FALSE, message |-> msg]

IdleCall == [pc |-> "idle", method |-> "", arg |-> 0, data |-> 0, requests |-> 0,
             kind |-> "", outcome |-> Rejected("")]

\* The arguments a caller passes: an id for the by-id methods, a payload for
\* the writing ones.
SampleOrder ==
    [userId |-> 1,
     items |-> << [productId |-> 1, name |-> "pizza", price |-> 2,
                   quantity |-> 2] >>,
     total |-> 4, status |-> "pending"]

Payloads(m) ==
    CASE m = "createProduct" -> {[name |-> "new", price |-> pr, stock |-> 5] : pr \in Prices}
      [] m = "updateProduct" -> {[price |-> pr] : pr \in Prices}
      [] m = "createOrder"   -> {SampleOrder}
      [] OTHER               -> {0}

Args(m) ==
    CASE m \in {"getProductById", "updateProduct", "deleteProduct"} -> ProductIds
      [] m = "getOrderById" -> 1..MaxOrders
      [] OTHER -> {0}

\* The smallest id the catalog does not use.
FreshProductId(cat) ==
    CHOOSE i \in 1..(MaxProducts + 1) :
        /\ i \notin DOMAIN cat
        /\ \A j \in 1..(i - 1) : j \in DOMAIN cat

\* Whether the backend can answer the request with a 2xx status.
CanAnswerOk(m, arg, cat, ords) ==
    CASE m \in {"getProductById", "updateProduct", "deleteProduct"} ->
             arg \in DOMAIN cat
      [] m = "getOrderById"  -> arg \in 1..Len(ords)
      [] m = "createProduct" -> Cardinality(DOMAIN cat) < MaxProducts
      [] m = "createOrder"   -> Len(ords) < MaxOrders
      [] OTHER -> TRUE

\* The body of the backend's 2xx answer.
OkBody(m, arg, data, cat, ords) ==
    CASE m = "getProducts"    -> cat
      [] m = "getProductsIDs" -> cat
      [] m = "getProductById" -> cat[arg]
      [] m = "createProduct"  ->
             [id |-> FreshProductId(cat), name |-> data.name,
              price |-> data.price, stock |-> data.stock]
      [] m = "updateProduct"  -> [cat[arg] EXCEPT !.price = data.price]
      [] m = "deleteProduct"  -> [deleted |-> arg]
      [] m = "createOrder"    ->
             [id |-> Len(ords) + 1, userId |-> data.userId,
              items |-> data.items, total |-> data.total,
              status |-> data.status]
      [] m = "getOrderById"   -> ords[arg]

\* The collection of the backend a method's request goes to.
Collection(m) ==
    IF m \in {"createOrder", "getOrderById"} THEN "orders" ELSE "products"

\* A backend that takes the ordered products out of stock.
ProductsAfterTakingStock(m, arg, data, cat, ords) ==
    [i \in DOMAIN cat |->
        IF \E k \in 1..Len(data.items) : data.items[k].productId = i
        THEN [cat[i] EXCEPT !.stock = @ - 1]
        ELSE cat[i]]

\* The catalog and the orders after the backend has served the request.
ProductsAfter(m, arg, data, cat, ords) ==
    CASE m = "createProduct" ->
             LET np == OkBody(m, arg, data, cat, ords)
             IN [i \in DOMAIN cat \cup {np.id} |->
                    IF i = np.id THEN np ELSE cat[i]]
      [] m = "updateProduct" ->
             [cat EXCEPT ![arg] = OkBody(m, arg, data, cat, ords)]
      [] m = "deleteProduct" -> [i \in DOMAIN cat \ {arg} |-> cat[i]]
      [] OTHER -> cat

OrdersAfter(m, arg, data, cat, ords) ==
    IF m = "createOrder" THEN Append(ords, OkBody(m, arg, data, cat, ords))
    ELSE ords

\* What a method resolves with for a 2xx body.
MethodValue(m, body) ==
    CASE m = "getProductsIDs" -> DOMAIN body
      [] m = "deleteProduct"  -> TRUE
      [] OTHER -> body

\* Every method rethrowing the error it caught, as getOrderById does.
RejectionMessageRethrown(m, kind, arg) ==
    IF kind = "non2xx" THEN <<"Error HTTP", m, arg>> ELSE NetworkErrorMsg

\* The message of the Error a method rejects with.
\* getProductsIDs delegates to getProducts and wraps its error again;
\* deleteProduct has no try/catch and getOrderById rethrows what it caught.
RejectionMessage(m, kind, arg) ==
    CASE m \in {"getProducts", "getProductById", "getProductsIDs",
                "createProduct", "updateProduct"} -> ProductsErrorMsg
      [] m = "createOrder" -> OrdersErrorMsg
      [] m = "deleteProduct" ->
             IF kind = "non2xx" THEN "Error al eliminar producto"
             ELSE NetworkErrorMsg
      [] m = "getOrderById" ->
             IF kind = "non2xx"
             THEN <<"No se pudo obtener la orden con id", arg>>
             ELSE NetworkErrorMsg

\* A method that takes whatever answer it gets for a success.
MethodOutcomeIgnoringStatus(m, kind, arg, body) ==
    IF kind = "netfail" THEN Rejected(RejectionMessage(m, kind, arg))
    ELSE Resolved(MethodValue(m, body))

\* The outcome of a method once its fetch has ended.
MethodOutcome(m, kind, arg, body) ==
    IF kind = "ok" THEN Resolved(MethodValue(m, body))
    ELSE Rejected(RejectionMessage(m, kind, arg))

\* The number of fetches a method issues when called.
RequestsIssued(m) == 1

\* A caller invokes a method: the method runs to its await of fetch().
ServiceCall ==
    /\ svc.pc # "awaiting"
    /\ \E m \in Methods : \E a \in Args(m), d \in Payloads(m) :
         svc' = [pc |-> "awaiting", method |-> m, arg |-> a, data |-> d,
                 requests |-> RequestsIssued(m), kind |-> "",
                 outcome |-> Rejected("")]
    /\ UNCHANGED <<products, orders, authVars, routerVars, cartVars>>

\* The fetch ends and the method runs to its return or throw.
ServiceRespond ==
    /\ svc.pc = "awaiting"
    /\ \E kind \in Kinds :
         /\ kind = "ok" => CanAnswerOk(svc.method, svc.arg, products, orders)
         /\ LET body == IF kind = "ok"
                        THEN OkBody(svc.method, svc.arg, svc.data, products, orders)
                        ELSE [error |-> TRUE]
            IN svc' = [svc EXCEPT !.pc = "done", !.kind = kind,
                          !.outcome = MethodOutcome(svc.method, kind, svc.arg, body)]
         /\ products' = IF kind = "ok"
                        THEN ProductsAfter(svc.method, svc.arg, svc.data, products, orders)
                        ELSE products
         /\ orders' = IF kind = "ok"
                      THEN OrdersAfter(svc.method, svc.arg, svc.data, products, orders)
                      ELSE orders
    /\ UNCHANGED <<authVars, routerVars, cartVars>>

----------------------------------------------------------------------------
\* The router and render().
Hashes == {"", "#menu", "#login", "#register", "#orders", "#dashboard",
           "#profile", "#nope"}

\* routes[hash]: the view function of a hash, "none" on a miss.
Route(h) ==
    CASE h = "#menu"      -> "menu"
      [] h = "#login"     -> "login"
      [] h = "#register"  -> "register"
      [] h = "#orders"    -> "orders"
      [] h = "#dashboard" -> "dashboard"
      [] h = "#profile"   -> "profile"
      [] OTHER            -> "none"

\* const hash = window.location.hash || '#register'
RouterHash(h) == IF h = "" THEN "#register" ELSE h

\* const currentPath = window.location.hash || '#login'
RenderPath(h) == IF h = "" THEN "#login" ELSE h

NoNavbarRoutes == {"#login", "#register"}

\* render() adds the Navbar unless the current path is in the exclusion list.
ShowNavbar(h) == RenderPath(h) \notin NoNavbarRoutes

\* The content of #app after render(viewNode) at hash h.
Render(view, h) == [view |-> view, navbar |-> ShowNavbar(h)]

IsAdminUser(u) == u # NoUser /\ u.role = "admin"

\* An AdminDashboardView without its guard.
DashboardGuardOpen(user) == TRUE

\* AdminDashboardView's guard: !(!user || user.role !== 'admin')
DashboardGuard(user) == user # NoUser /\ user.role = "admin"

\* The views whose function awaits the backend before it returns.
AsyncViews == {"menu", "orders"}

\* orderView reads user.name of the session user before any await.
ViewThrows(view, sess) == view = "orders" /\ sess = NoUser

\* A router() that lets the view's error escape.
RouterCatchRethrows(prev, h) == [mount |-> prev, uncaught |-> TRUE]

\* router()'s catch block: log, then renderError404().
RouterCatch(prev, h) == [mount |-> Render("404", h), uncaught |-> FALSE]

\* A router() that drops a view whose hash is no longer the current one.
RendersAfterAwaitIfCurrent(startHash, nowHash) == startHash = RouterHash(nowHash)

\* After its await router() renders whatever the view returned: it compares
\* nothing with the hash it started from.
RendersAfterAwait(startHash, nowHash) == TRUE

\* loadCartFromStorage(): the stored array, [] when the key is absent.  The
\* cart holds plain numbers, which JSON.stringify/JSON.parse give back as
\* they were.
LoadCart(stored) == IF stored.saved THEN stored.cart ELSE <<>>

FreeSlots == {i \in Slots : inflight[i] = Free}
LowestFree == CHOOSE i \in FreeSlots : \A j \in FreeSlots : i <= j

\* A view replaces the one on screen: the old menu view's closure is out of
\* reach of the user, an awaiting handleConfirmOrder of it goes on.
DetachedCheckout ==
    IF checkout.pc = "awaiting" THEN [checkout EXCEPT !.stale = TRUE]
    ELSE checkout

\* The user follows a link or edits the address: the hash changes.
Navigate ==
    /\ pending < MaxPending
    /\ \E h \in Hashes \ {hash} : SetHash(h)
    /\ UNCHANGED <<users, session, lg, rg, serviceVars, inflight, mount,
                   uncaught, cartVars>>

\* router() from the hashchange/load event to its first await, or to its end
\* when the view function returns without waiting for the backend.
Dispatch ==
    /\ pending > 0
    /\ LET h == RouterHash(hash)
           v == Route(h)
       IN CASE v = "none" ->
                 /\ mount' = Render("404", hash)
                 /\ menu' = NoMenu /\ checkout' = DetachedCheckout
                 /\ pending' = pending - 1
                 /\ UNCHANGED <<hash, inflight, uncaught, storedCart>>
            [] v # "none" /\ ViewThrows(v, session) ->
                 /\ mount' = RouterCatch(mount, hash).mount
                 /\ uncaught' = (uncaught \/ RouterCatch(mount, hash).uncaught)
                 /\ IF RouterCatch(mount, hash).uncaught
                    THEN UNCHANGED <<menu, checkout>>
                    ELSE menu' = NoMenu /\ checkout' = DetachedCheckout
                 /\ pending' = pending - 1
                 /\ UNCHANGED <<hash, inflight, storedCart>>
            [] v \in {"login", "register", "profile"} ->
                 /\ mount' = Render(v, hash)
                 /\ menu' = NoMenu /\ checkout' = DetachedCheckout
                 /\ pending' = pending - 1
                 /\ UNCHANGED <<hash, inflight, uncaught, storedCart>>
            [] v = "dashboard" ->
                 /\ IF DashboardGuard(session)
                    THEN /\ mount' = Render("dashboard", hash)
                         /\ pending' = pending - 1
                         /\ UNCHANGED hash
                    ELSE /\ hash' = "#menu"
                         /\ pending' = IF hash # "#menu" THEN pending
                                       ELSE pending - 1
                         /\ mount' = Render("denied", "#menu")
                 /\ menu' = NoMenu /\ checkout' = DetachedCheckout
                 /\ UNCHANGED <<inflight, uncaught, storedCart>>
            [] v \in AsyncViews /\ ~ViewThrows(v, session) ->
                 /\ FreeSlots # {}
                 /\ inflight' = [inflight EXCEPT ![LowestFree] =
                        [view |-> v, hash |-> h,
                         isAdmin |-> IsAdminUser(session),
                         userId |-> IF session = NoUser THEN 0 ELSE session.id,
                         cart |-> IF v = "menu" THEN LoadCart(storedCart)
                                  ELSE <<>>]]
                 /\ pending' = pending - 1
                 /\ UNCHANGED <<hash, mount, uncaught, cartVars>>
    /\ UNCHANGED <<users, session, lg, rg, serviceVars>>

\* The menu view's closure when menuView() returns: products loaded or not,
\* product cards drawn or not.
MenuInstance(e, kind, cardsOk) ==
    [cart       |-> e.cart,
     isAdmin    |-> e.isAdmin,
     allProducts |-> IF kind = "ok" THEN products ELSE <<>>,
     cards      |-> kind = "ok" /\ cardsOk /\ DOMAIN products # {},
     message    |-> ""]

\* The order cards orderView puts in its list: none when a fetch fails, the
\* orders of the user it read at its start when there was one, else all.
OrdersShown(kind, ords, userId) ==
    IF kind # "ok" THEN {}
    ELSE IF userId # 0 THEN {k \in 1..Len(ords) : ords[k].userId = userId}
    ELSE 1..Len(ords)

\* The content of #app after render() of an orders view showing these cards.
RenderOrders(shown, h) ==
    [view |-> "orders", navbar |-> ShowNavbar(h), shown |-> shown]

\* The view function of an awaiting router() call returns and router() goes
\* on to render().
Resolve(i) ==
    /\ inflight[i] # Free
    /\ inflight' = [inflight EXCEPT ![i] = Free]
    /\ LET e == inflight[i]
       IN IF RendersAfterAwait(e.hash, hash)
          THEN /\ checkout' = DetachedCheckout
               /\ IF e.view = "menu"
                  THEN \E kind \in Kinds, cardsOk \in BOOLEAN :
                         /\ mount' = Render(e.view, hash)
                         /\ menu' = MenuInstance(e, kind, cardsOk)
                         /\ storedCart' = IF kind = "ok" THEN Saved(e.cart)
                                          ELSE storedCart
                  ELSE \E kind \in Kinds :
                         /\ mount' = RenderOrders(OrdersShown(kind, orders, e.userId),
                                                  hash)
                         /\ menu' = NoMenu
                         /\ UNCHANGED storedCart
          ELSE UNCHANGED <<mount, cartVars>>
    /\ UNCHANGED <<users, session, hash, lg, rg, serviceVars, pending, uncaught>>

\* What the login form's fields may hold at a submit.
FormEmails == Emails \cup {"", " "}
FormPasswords == Passwords \cup {""}

\* String.prototype.trim() on the values the email field takes here.
Trim(e) == IF e = " " THEN "" ELSE e

EmptyFieldsMsg == "Por favor completa todos los campos"

\* A handleLogin without its validation.
FieldsFilledAlways(email, password) == TRUE

\* handleLogin's validation: !(!email || !password), email trimmed.
FieldsFilled(email, password) == Trim(email) # "" /\ password # ""

\* The login form on screen is submitted: handleLogin up to its return on an
\* empty field, else up to its await of login().
LoginFormSubmit ==
    /\ mount.view = "login"
    /\ lg.pc = "idle"
    /\ \E e \in FormEmails, p \in FormPasswords :
         IF FieldsFilled(e, p)
         THEN lg' = [pc |-> "fetching", email |-> Trim(e), password |-> p,
                     kind |-> "", result |-> Failure("")]
         ELSE lg' = [IdleLogin EXCEPT !.result = Failure(EmptyFieldsMsg)]
    /\ UNCHANGED <<users, session, hash, rg, serviceVars, routerVars, cartVars>>

\* handleLogin after login() has returned: on success the hash becomes #menu
\* one second later, on failure the error is shown.
LoginFormContinue ==
    /\ lg.pc = "returned"
    /\ lg' = IdleLogin
    /\ IF lg.result.success
       THEN CanSetHash("#menu") /\ SetHash("#menu")
       ELSE UNCHANGED <<hash, pending>>
    /\ UNCHANGED <<users, session, rg, serviceVars, inflight, mount, uncaught,
                   cartVars>>

\* The Navbar's "Log out" button is clicked.
LogoutClick ==
    /\ mount.navbar
    /\ Logout

----------------------------------------------------------------------------
\* The menu view's cart: an array of lines {product, quantity}; a line keeps
\* the product's id and price.
LineIndex(cart, id) ==
    IF \E i \in 1..Len(cart) : cart[i].id = id
    THEN CHOOSE i \in 1..Len(cart) :
             cart[i].id = id /\ \A j \in 1..(i - 1) : cart[j].id # id
    ELSE 0

\* cart.splice(i, 1)
RemoveAt(cart, i) == [j \in 1..(Len(cart) - 1) |-> IF j < i THEN cart[j] ELSE cart[j + 1]]

\* addToCart: one more of a line already there, else a new line of 1.
AddLine(cart, product) ==
    LET i == LineIndex(cart, product.id)
    IN IF i > 0 THEN [cart EXCEPT ![i].quantity = @ + 1]
       ELSE Append(cart, [id |-> product.id, name |-> product.name,
                          price |-> product.price, quantity |-> 1])

\* The "+" button of line i.
IncreaseLine(cart, i) == [cart EXCEPT ![i].quantity = @ + 1]

\* A "-" button that only ever decrements.
DecreaseLineToZero(cart, i) == [cart EXCEPT ![i].quantity = @ - 1]

\* The "-" button of line i: decrement above 1, else drop the line.
DecreaseLine(cart, i) ==
    IF cart[i].quantity > 1 THEN [cart EXCEPT ![i].quantity = @ - 1]
    ELSE RemoveAt(cart, i)

RECURSIVE SumPrices(_, _)
SumPrices(cart, n) ==
    IF n = 0 THEN 0 ELSE SumPrices(cart, n - 1) + cart[n].price

\* A total that counts every line once.
CartTotalOfPrices(cart) == SumPrices(cart, Len(cart))

RECURSIVE SumLines(_, _)
SumLines(cart, n) ==
    IF n = 0 THEN 0
    ELSE SumLines(cart, n - 1) + cart[n].price * cart[n].quantity

\* cart.reduce((sum, item) => sum + item.product.price * item.quantity, 0)
CartTotal(cart) == SumLines(cart, Len(cart))

\* The orderData object handleConfirmOrder builds (its user: {name, email},
\* which no handler reads back, is left out).
OrderData(user, cart) ==
    [userId |-> user.id,
     items |-> [i \in 1..Len(cart) |->
                  [productId |-> cart[i].id, name |-> cart[i].name,
                   price |-> cart[i].price, quantity |-> cart[i].quantity]],
     total |-> CartTotal(cart),
     status |-> "pending"]

MenuOnScreen == mount.view = "menu" /\ menu # NoMenu

\* updateSidebarUI() after a change of the cart: saveCartToStorage().
CartBecomes(c) ==
    /\ menu' = [menu EXCEPT !.cart = c]
    /\ storedCart' = Saved(c)

\* Click on a product card's "Add to order".
AddToCart ==
    /\ MenuOnScreen /\ menu.cards
    /\ \E id \in DOMAIN menu.allProducts :
         /\ LineIndex(menu.cart, id) > 0 =>
                menu.cart[LineIndex(menu.cart, id)].quantity < MaxQty
         /\ CartBecomes(AddLine(menu.cart, menu.allProducts[id]))
    /\ UNCHANGED <<authVars, serviceVars, routerVars, checkout>>

\* Click on a cart line's "+".
IncreaseClick ==
    /\ MenuOnScreen
    /\ \E i \in 1..Len(menu.cart) :
         /\ menu.cart[i].quantity < MaxQty
         /\ CartBecomes(IncreaseLine(menu.cart, i))
    /\ UNCHANGED <<authVars, serviceVars, routerVars, checkout>>

\* Click on a cart line's "-".
DecreaseClick ==
    /\ MenuOnScreen
    /\ \E i \in 1..Len(menu.cart) : CartBecomes(DecreaseLine(menu.cart, i))
    /\ UNCHANGED <<authVars, serviceVars, routerVars, checkout>>

\* Click on a cart line's "Remove".
RemoveClick ==
    /\ MenuOnScreen
    /\ \E i \in 1..Len(menu.cart) : CartBecomes(RemoveAt(menu.cart, i))
    /\ UNCHANGED <<authVars, serviceVars, routerVars, checkout>>

\* Click on "Clear all".
ClearAllClick ==
    /\ MenuOnScreen
    /\ CartBecomes(<<>>)
    /\ UNCHANGED <<authVars, serviceVars, routerVars, checkout>>

\* A handleConfirmOrder that looks for the session user first.
HandleConfirmOrderUserFirst ==
    IF session = NoUser
    THEN /\ CanSetHash("#login") /\ SetHash("#login")
         /\ UNCHANGED <<cartVars, inflight, mount, uncaught>>
    ELSE IF Len(menu.cart) = 0
    THEN /\ menu' = [menu EXCEPT !.message = "Add items to cart first."]
         /\ UNCHANGED <<hash, routerVars, storedCart, checkout>>
    ELSE /\ checkout' = [pc |-> "awaiting", order |-> OrderData(session, menu.cart),
                         stale |-> FALSE, kind |-> ""]
         /\ UNCHANGED <<hash, routerVars, storedCart, menu>>

\* A handleConfirmOrder that stays on the page when nobody is logged in.
HandleConfirmOrderNoRedirect ==
    IF Len(menu.cart) = 0
    THEN /\ menu' = [menu EXCEPT !.message = "Add items to cart first."]
         /\ UNCHANGED <<hash, routerVars, storedCart, checkout>>
    ELSE IF session = NoUser
    THEN /\ menu' = [menu EXCEPT !.message = "You must be logged in to order."]
         /\ UNCHANGED <<hash, routerVars, storedCart, checkout>>
    ELSE /\ checkout' = [pc |-> "awaiting", order |-> OrderData(session, menu.cart),
                         stale |-> FALSE, kind |-> ""]
         /\ UNCHANGED <<hash, routerVars, storedCart, menu>>

\* handleConfirmOrder up to its await of createOrder.
HandleConfirmOrder ==
    IF Len(menu.cart) = 0
    THEN /\ menu' = [menu EXCEPT !.message = "Add items to cart first."]
         /\ UNCHANGED <<hash, routerVars, storedCart, checkout>>
    ELSE IF session = NoUser
    THEN /\ CanSetHash("#login") /\ SetHash("#login")
         /\ UNCHANGED <<cartVars, inflight, mount, uncaught>>
    ELSE /\ checkout' = [pc |-> "awaiting", order |-> OrderData(session, menu.cart),
                         stale |-> FALSE, kind |-> ""]
         /\ UNCHANGED <<hash, routerVars, storedCart, menu>>

\* Click on "Confirm Order".
ConfirmOrderClick ==
    /\ MenuOnScreen
    /\ checkout.pc # "awaiting"
    /\ HandleConfirmOrder
    /\ UNCHANGED <<users, session, lg, rg, serviceVars>>

\* A handleConfirmOrder that empties the cart whatever createOrder did.
CartAfterOrderAlwaysEmpty(cart, resolved) == <<>>

\* The closure's cart after the try/catch around createOrder: cart = [] is
\* the statement after the await, skipped when it rejects.
CartAfterOrder(cart, resolved) == IF resolved THEN <<>> ELSE cart

\* createOrder ends and handleConfirmOrder goes on: on success the cart of
\* its closure is emptied and saved, in both cases the button is enabled.
CheckoutRespond ==
    /\ checkout.pc = "awaiting"
    /\ \E kind \in Kinds :
         /\ kind = "ok" => CanAnswerOk("createOrder", 0, products, orders)
         /\ LET body == IF kind = "ok"
                        THEN OkBody("createOrder", 0, checkout.order, products, orders)
                        ELSE [error |-> TRUE]
                out  == MethodOutcome("createOrder", kind, 0, body)
            IN /\ checkout' = [checkout EXCEPT !.pc = "done", !.order = NoOrder,
                                             !.kind = kind]
               /\ orders' = IF kind = "ok"
                            THEN OrdersAfter("createOrder", 0, checkout.order,
                                             products, orders)
                            ELSE orders
               /\ products' = IF kind = "ok"
                              THEN ProductsAfter("createOrder", 0, checkout.order,
                                                 products, orders)
                              ELSE products
               /\ storedCart' = IF out.resolved THEN Saved(<<>>) ELSE storedCart
               /\ menu' = IF checkout.stale THEN menu
                          ELSE IF out.resolved
                          THEN [menu EXCEPT !.cart = CartAfterOrder(menu.cart, TRUE),
                                            !.message = "Order placed successfully!"]
                          ELSE [menu EXCEPT !.cart = CartAfterOrder(menu.cart, FALSE),
                                            !.message = "Error placing order."]
    /\ UNCHANGED <<authVars, svc, routerVars>>

----------------------------------------------------------------------------
\* The orders the backend holds when the page is opened: one of each user.
SeedOrders ==
    << [id |-> 1, userId |-> 1,
        items |-> << [productId |-> 1, name |-> "pizza", price |-> 2,
                      quantity |-> 1] >>,
        total |-> 2, status |-> "pending"],
       [id |-> 2, userId |-> 2,
        items |-> << [productId |-> 2, name |-> "soda", price |-> 3,
                      quantity |-> 1] >>,
        total |-> 3, status |-> "pending"] >>

\* The session a page load may find in local storage.
StoredSessions == {NoUser} \cup {SessionUser(SeedUsers[i]) : i \in 1..Len(SeedUsers)}

\* The page has just been opened without a hash: the load event is queued.
Init ==
    /\ users = SeedUsers
    /\ session \in StoredSessions
    /\ hash = ""
    /\ lg = IdleLogin
    /\ rg = [f \in Forms |-> IdleRegister]
    /\ products = SeedProducts
    /\ orders = SeedOrders
    /\ svc = IdleCall
    /\ pending = 1
    /\ inflight = [i \in Slots |-> Free]
    /\ mount = NoView
    /\ uncaught = FALSE
    /\ storedCart = NoCart
    /\ menu = NoMenu
    /\ checkout = IdleCheckout

Next ==
    \/ Navigate
    \/ Dispatch
    \/ \E i \in Slots : Resolve(i)
    \/ LogoutClick

\* The same with the login form's handler.
LoginFlowNext ==
    \/ Next
    \/ LoginFormSubmit
    \/ LoginRespond
    \/ LoginFormContinue

SpecLoginFlow == Init /\ [][LoginFlowNext]_vars

\* The login form from the login page: submit, the answer, the redirect to
\* the menu, and logout back to the form.  The timer of handleLogin fires
\* and the event loop runs every queued hashchange.
LoginFormNext ==
    \/ LoginFormSubmit
    \/ LoginRespond
    \/ LoginFormContinue
    \/ Dispatch
    \/ \E i \in Slots : Resolve(i)
    \/ LogoutClick

LoginFormInit ==
    /\ users = SeedUsers
    /\ session = NoUser
    /\ hash = "#login"
    /\ lg = IdleLogin
    /\ rg = [f \in Forms |-> IdleRegister]
    /\ products = SeedProducts
    /\ orders = SeedOrders
    /\ svc = IdleCall
    /\ pending = 0
    /\ inflight = [i \in Slots |-> Free]
    /\ mount = Render("login", "#login")
    /\ uncaught = FALSE
    /\ storedCart \in {NoCart, Saved(<<>>)}
    /\ menu = NoMenu
    /\ checkout = IdleCheckout

SpecLoginForm ==
    /\ LoginFormInit /\ [][LoginFormNext]_vars
    /\ WF_vars(LoginFormContinue)
    /\ WF_vars(Dispatch)

\* The menu view on screen at #menu, its products loaded and its cart empty,
\* reached by opening the page and going to #menu with or without a session.
CartInit ==
    /\ users = SeedUsers
    /\ session \in StoredSessions
    /\ hash = "#menu"
    /\ lg = IdleLogin
    /\ rg = [f \in Forms |-> IdleRegister]
    /\ products = SeedProducts
    /\ orders = <<>>
    /\ svc = IdleCall
    /\ pending = 0
    /\ inflight = [i \in Slots |-> Free]
    /\ mount = Render("menu", "#menu")
    /\ uncaught = FALSE
    /\ storedCart = Saved(<<>>)
    /\ menu = [cart |-> <<>>, isAdmin |-> IsAdminUser(session),
               allProducts |-> SeedProducts, cards |-> TRUE, message |-> ""]
    /\ checkout = IdleCheckout

CartNext ==
    \/ AddToCart
    \/ IncreaseClick
    \/ DecreaseClick
    \/ RemoveClick
    \/ ClearAllClick
    \/ ConfirmOrderClick
    \/ CheckoutRespond

SpecCart == CartInit /\ [][CartNext]_vars

\* The menu view with the router: the user puts one product in the empty
\* cart, confirms, and goes back and forth between the menu and the profile
\* page while requests are pending.
ShopNext ==
    \/ AddToCart /\ Len(menu.cart) = 0
    \/ ConfirmOrderClick
    \/ CheckoutRespond
    \/ Navigate /\ hash' \in {"#menu", "#profile"}
    \/ Dispatch
    \/ \E i \in Slots : Resolve(i)

SpecShop == CartInit /\ [][ShopNext]_vars

\* The authentication service on its own: one login form, NumForms
\* registration forms, the backend's user store and the session key.
\* It starts with the login view on screen at #login.
AuthInit ==
    /\ users = SeedUsers
    /\ session = NoUser
    /\ hash = "#login"
    /\ lg = IdleLogin
    /\ rg = [f \in Forms |-> IdleRegister]
    /\ products = SeedProducts
    /\ orders = <<>>
    /\ svc = IdleCall
    /\ pending = 0
    /\ inflight = [i \in Slots |-> Free]
    /\ mount = Render("login", "#login")
    /\ uncaught = FALSE
    /\ storedCart = NoCart
    /\ menu = NoMenu
    /\ checkout = IdleCheckout

AuthNext ==
    \/ LoginSubmit
    \/ LoginRespond
    \/ Logout
    \/ RegisterSubmit(1)
    \/ RegisterChecked(1)
    \/ RegisterPosted(1)

SpecAuth == AuthInit /\ [][AuthNext]_vars

\* The registration forms racing on the user store.
RegisterNext ==
    \/ \E f \in Forms : RegisterSubmit(f)
    \/ \E f \in Forms : RegisterChecked(f)
    \/ \E f \in Forms : RegisterPosted(f)

SpecRegister == AuthInit /\ [][RegisterNext]_vars

\* The JsonService methods called one after another against the backend.
ServiceNext == ServiceCall \/ ServiceRespond

SpecService == AuthInit /\ [][ServiceNext]_vars

\* The callers of the services side by side: a JsonService call and a login.
OutcomesNext == ServiceCall \/ ServiceRespond \/ LoginSubmit \/ LoginRespond

SpecOutcomes == AuthInit /\ [][OutcomesNext]_vars

Spec == Init /\ [][Next]_vars

\* The same page with the event loop running every queued hashchange and
\* every fetch of a view coming to an end, well or badly.
SpecFair ==
    /\ Init /\ [][Next]_vars
    /\ WF_vars(Dispatch)
    /\ \A i \in Slots : WF_vars(Resolve(i))

----------------------------------------------------------------------------
\* Properties of the authentication service.

HasMatch(store, e, p) ==
    \E i \in 1..Len(store) : store[i].email = e /\ store[i].password = p

\* C1: login() returns success, and then writes the session, only when the
\* user store holds a record with the given email and the given password;
\* when no such record exists, or the request ends non-2xx or fails at the
\* network, it returns success:false and leaves the session key as it was.
C1_LoginOnlyWithMatchingRecord ==
    [][ (lg.pc = "fetching" /\ lg'.pc = "returned") =>
          /\ lg'.result.success =>
                /\ lg'.kind = "ok"
                /\ HasMatch(users, lg.email, lg.password)
                /\ session' = lg'.result.user
          /\ (lg'.kind # "ok" \/ ~HasMatch(users, lg.email, lg.password)) =>
                /\ ~lg'.result.success
                /\ session' = session ]_vars

\* A login has succeeded and its user is the session user.
C1_Witness ==
    /\ lg.pc = "returned" /\ lg.result.success
    /\ session = lg.result.user /\ session # NoUser

\* C2: a register() called with an email that a record of the user store
\* already has issues no POST and returns success:false.
C2_DuplicateEmailRejected ==
    \A f \in Forms :
        rg[f].dupAtCall =>
            /\ ~rg[f].posted
            /\ rg[f].pc = "done" => ~rg[f].result.success

----------------------------------------------------------------------------
\* Properties of the service layer.

ErrorBody == [error |-> TRUE]

\* C9: a JsonService method whose request is answered non-2xx rejects, never
\* resolving with a value, after exactly one request.
C9_RejectsOnNon2xx ==
    (svc.pc = "done" /\ svc.kind = "non2xx") =>
        /\ ~svc.outcome.resolved
        /\ svc.requests = 1

\* deleteProduct has been answered non-2xx.
C9_Witness ==
    /\ svc.pc = "done" /\ svc.kind = "non2xx"
    /\ svc.method = "deleteProduct" /\ ~svc.outcome.resolved

\* C10 as stated: for every operation of the services the caller sees the
\* same outcome whether the request is answered non-2xx or fails at the
\* network.
C10_SameOutcomeEverywhere ==
    /\ svc.pc = "awaiting" =>
          MethodOutcome(svc.method, "non2xx", svc.arg, ErrorBody)
            = MethodOutcome(svc.method, "netfail", svc.arg, ErrorBody)
    /\ lg.pc = "fetching" =>
          LoginResult("non2xx", <<>>, lg.password)
            = LoginResult("netfail", <<>>, lg.password)
    /\ \A f \in Forms :
          /\ rg[f].pc = "checking" =>
                \A b \in ErrBodies :
                    RegisterAfterCheck("non2xx", b, <<>>)
                      = RegisterAfterCheck("netfail", b, <<>>)
          /\ rg[f].pc = "posting" =>
                RegisterAfterPost("non2xx", NoUser)
                  = RegisterAfterPost("netfail", NoUser)

WrappingMethods ==
    {"getProducts", "getProductById", "getProductsIDs", "createProduct",
     "updateProduct", "createOrder"}

\* C10 amended: getProducts, getProductById, getProductsIDs, createProduct,
\* updateProduct, createOrder and login give the caller the same outcome for
\* a non-2xx answer as for a network failure, and leave the backend and the
\* session as they were; deleteProduct and getOrderById reject in both cases,
\* with different messages.
C10_SameOutcomeWhereWrapped ==
    /\ [](svc.pc = "awaiting" =>
            LET n == MethodOutcome(svc.method, "non2xx", svc.arg, ErrorBody)
                f == MethodOutcome(svc.method, "netfail", svc.arg, ErrorBody)
            IN /\ ~n.resolved /\ ~f.resolved
               /\ svc.method \in WrappingMethods => n = f
               /\ svc.method \notin WrappingMethods => n.message # f.message)
    /\ [](lg.pc = "fetching" =>
            /\ LoginResult("non2xx", <<>>, lg.password)
                 = LoginResult("netfail", <<>>, lg.password)
            /\ ~LoginResult("non2xx", <<>>, lg.password).success)
    /\ [][ (svc.pc = "awaiting" /\ svc'.pc = "done" /\ svc'.kind # "ok") =>
              UNCHANGED <<products, orders>> ]_vars
    /\ [][ (lg.pc = "fetching" /\ lg'.pc = "returned" /\ lg'.kind # "ok") =>
              UNCHANGED session ]_vars

\* createOrder has failed at the network and was rejected with the message
\* of a non-2xx answer, and a login answered non-2xx has returned its failure.
C10_Witness ==
    /\ svc.pc = "done" /\ svc.kind = "netfail" /\ svc.method = "createOrder"
    /\ svc.outcome.message = OrdersErrorMsg
    /\ lg.pc = "returned" /\ lg.kind = "non2xx" /\ ~lg.result.success

----------------------------------------------------------------------------
\* Properties of the cart.

QuantitiesPositive(cart) == \A i \in 1..Len(cart) : cart[i].quantity >= 1

RECURSIVE SumQuantities(_, _)
SumQuantities(cart, n) ==
    IF n = 0 THEN 0 ELSE SumQuantities(cart, n - 1) + cart[n].quantity

Units(cart) == SumQuantities(cart, Len(cart))

LineIds(cart) == {cart[i].id : i \in 1..Len(cart)}

\* C3: from the empty cart, after any add-to-cart, increase, decrease, remove
\* and clear-all, every line of the cart and of the saved cart has quantity
\* >= 1; a decrease takes exactly one unit away, and on a line of quantity 1
\* it takes the line away instead of keeping it at 0.
C3_QuantityAtLeastOne ==
    /\ [](menu # NoMenu => QuantitiesPositive(menu.cart))
    /\ [](storedCart.saved => QuantitiesPositive(storedCart.cart))
    /\ [][ DecreaseClick =>
             /\ Units(menu'.cart) = Units(menu.cart) - 1
             /\ LineIds(menu'.cart) \subseteq LineIds(menu.cart)
             /\ (\A i \in 1..Len(menu.cart) : menu.cart[i].quantity = 1)
                   => Len(menu'.cart) = Len(menu.cart) - 1
             /\ (\A i \in 1..Len(menu.cart) : menu.cart[i].quantity > 1)
                   => Len(menu'.cart) = Len(menu.cart) ]_vars

\* A cart of two lines, one at quantity 1 whose "-" would drop it and one
\* raised to the top quantity, saved as it is.
C3_Witness ==
    /\ menu # NoMenu /\ Len(menu.cart) = 2
    /\ menu.cart[1].quantity = 1 /\ menu.cart[2].quantity = MaxQty
    /\ storedCart = Saved(menu.cart)

\* C4: handleConfirmOrder with an empty cart starts no createOrder request,
\* leaves the cart, the saved cart, the orders and the hash as they were and
\* sets the warning message, with or without a session user.
C4_EmptyCartRejected ==
    [][ (ConfirmOrderClick /\ Len(menu.cart) = 0) =>
          /\ checkout' = checkout
          /\ orders' = orders
          /\ menu'.cart = menu.cart
          /\ storedCart' = storedCart
          /\ hash' = hash /\ pending' = pending
          /\ menu'.message = "Add items to cart first." ]_vars

\* Without a session the empty cart has been confirmed: the warning shows,
\* the page is still at #menu and no order has been started.
C4_Witness ==
    /\ menu # NoMenu /\ Len(menu.cart) = 0
    /\ menu.message = "Add items to cart first."
    /\ session = NoUser /\ hash = "#menu" /\ pending = 0
    /\ checkout.pc = "idle" /\ orders = <<>>

----------------------------------------------------------------------------
\* Properties of the router and of render().

\* No hashchange waits for its router() call and no view load is in flight.
AtRest == pending = 0 /\ \A i \in Slots : inflight[i] = Free

\* The menu view on screen has the Add-product button (and its cards the
\* Edit/Delete buttons).
AdminControlsShown == mount.view = "menu" /\ menu # NoMenu /\ menu.isAdmin

\* C5: whenever the menu view on screen shows the Add-product button or the
\* Edit/Delete buttons of a card, the session user exists and has role admin
\* (looked at when the page is at rest).
C5_AdminControlsOnlyForAdmin ==
    (AtRest /\ AdminControlsShown) => IsAdminUser(session)

\* router() meets a hash that is no key of routes, or a view function that
\* throws or rejects.
RouterFails ==
    \/ Route(RouterHash(hash)) = "none"
    \/ ViewThrows(Route(RouterHash(hash)), session)

\* C6: a router() call whose hash is not in the routes table, or whose view
\* function throws or rejects, renders the 404 view: the previous view does
\* not stay and no error leaves router().
C6_Renders404OnMissOrThrow ==
    /\ [][ (Dispatch /\ RouterFails) =>
              mount'.view = "404" /\ ~uncaught' ]_vars
    /\ []~uncaught

\* The orders view was asked for without a session and threw: 404 is shown.
C6_Witness ==
    /\ AtRest /\ hash = "#orders" /\ session = NoUser
    /\ mount.view = "404" /\ ~uncaught

\* C7: after every render the mount element has the navigation header
\* exactly when the view rendered is neither the login nor the register
\* view.
C7_NavbarIffNotAuthView ==
    mount.view # "none" =>
        (mount.navbar <=> mount.view \notin {"login", "register"})

\* C8: a view load whose hash is no longer the current one when its view
\* function resolves is rendered all the same: the mount element shows its
\* view and the hash stays the one the user went to.
C8_StaleViewStillRendered ==
    [][ \A i \in Slots :
          (Resolve(i) /\ inflight[i].hash # RouterHash(hash)) =>
              /\ mount'.view = inflight[i].view
              /\ hash' = hash ]_vars

\* The user went from #menu to #profile, the profile view was rendered, and
\* the menu view, resolving later, has replaced it.
C8_Witness ==
    /\ AtRest /\ hash = "#profile" /\ mount.view = "menu"

----------------------------------------------------------------------------
\* Properties of the session.

\* The record is the store's record u without its password.
PasswordFreeCopy(rec, u) ==
    /\ DOMAIN rec = (DOMAIN u) \ {"password"}
    /\ \A f \in DOMAIN rec : rec[f] = u[f]

\* C11: through logins and logouts the value under 'activeUser' never has a
\* password field: a successful login stores the user's record without its
\* password and returns that same record.
C11_SessionHasNoPassword ==
    /\ [](session # NoUser => "password" \notin DOMAIN session)
    /\ [][ (lg.pc = "fetching" /\ lg'.pc = "returned" /\ lg'.result.success) =>
              /\ session' = lg'.result.user
              /\ "password" \notin DOMAIN lg'.result.user
              /\ \E i \in 1..Len(users) :
                    /\ users[i].email = lg.email
                    /\ "password" \in DOMAIN users[i]
                    /\ PasswordFreeCopy(session', users[i]) ]_vars

\* The admin of the store has logged in: the session holds id, email and
\* role of the record, and the login returned the same.
C11_Witness ==
    /\ lg.pc = "returned" /\ lg.result.success /\ lg.email = "a@x"
    /\ session = [id |-> 1, email |-> "a@x", role |-> "admin"]
    /\ lg.result.user = session

\* C12: logout() removes the session and sets the hash to #login; from then
\* on getCurrentUser() is null and isAuthenticated() and isAdmin() are false,
\* and only a successful login makes them anything else.
C12_LogoutEndsSession ==
    /\ [][ LogoutClick =>
              /\ GetCurrentUser' = NoUser
              /\ ~IsAuthenticated' /\ ~IsAdmin'
              /\ hash' = "#login" ]_vars
    /\ [][ (~IsAuthenticated /\ (IsAuthenticated' \/ IsAdmin')) =>
              /\ lg.pc = "fetching" /\ lg'.pc = "returned"
              /\ lg'.result.success ]_vars

\* A menu or orders view asked for by a logged-in user is still loading,
\* and the user has logged out since: no session, hash #login.
C12_Witness ==
    /\ ~IsAuthenticated /\ ~IsAdmin /\ hash = "#login"
    /\ \E i \in Slots : inflight[i] # Free /\ inflight[i].userId # 0

----------------------------------------------------------------------------
\* Properties of the checkout.

\* C13: a checkout started with lines in the cart and a session user empties
\* the cart, in memory and in local storage, exactly when createOrder
\* succeeds; when it rejects, both are left as they were; either way the
\* Confirm button is enabled again.
C13_CartEmptiedIffOrderCreated ==
    [][ (CheckoutRespond /\ ~checkout.stale) =>
          /\ checkout'.kind = "ok" =>
                /\ menu'.cart = <<>> /\ storedCart' = Saved(<<>>)
                /\ Len(orders') = Len(orders) + 1
          /\ checkout'.kind # "ok" =>
                /\ menu'.cart = menu.cart /\ storedCart' = storedCart
                /\ orders' = orders
          /\ checkout'.pc # "awaiting" ]_vars

\* One checkout has gone through and emptied the cart; a later one, of a
\* cart of two lines, failed at the network and the two lines are still
\* there, in memory and in local storage.
C13_Witness ==
    /\ Len(orders) = 1
    /\ checkout.pc = "done" /\ checkout.kind = "netfail"
    /\ menu # NoMenu /\ menu.message = "Error placing order."
    /\ Len(menu.cart) = 2 /\ storedCart = Saved(menu.cart)

RECURSIVE TotalOf(_)
TotalOf(lines) ==
    IF lines = <<>> THEN 0
    ELSE Head(lines).price * Head(lines).quantity + TotalOf(Tail(lines))

\* The order is the one handleConfirmOrder is to build from cart and user.
OrderOf(order, cart, user) ==
    /\ Len(order.items) = Len(cart)
    /\ \A i \in 1..Len(cart) :
          /\ order.items[i].productId = cart[i].id
          /\ order.items[i].name = cart[i].name
          /\ order.items[i].price = cart[i].price
          /\ order.items[i].quantity = cart[i].quantity
    /\ order.status = "pending"
    /\ order.userId = user.id
    /\ order.total = TotalOf(cart)

\* C14: the order a checkout posts has one item per cart line with the
\* line's product id, name, price and quantity, status 'pending', the
\* session user's id and the sum of price times quantity as total, all as
\* the cart is when Confirm is clicked; the backend stores just that.
C14_OrderMatchesCart ==
    /\ [][ (ConfirmOrderClick /\ Len(menu.cart) > 0 /\ session # NoUser) =>
              /\ checkout'.pc = "awaiting"
              /\ OrderOf(checkout'.order, menu.cart, session) ]_vars
    /\ [][ (CheckoutRespond /\ checkout'.kind = "ok") =>
              LET o == orders'[Len(orders')]
              IN /\ o.items = checkout.order.items
                 /\ o.total = checkout.order.total
                 /\ o.status = checkout.order.status
                 /\ o.userId = checkout.order.userId ]_vars

\* The second user's order of two pizzas and two sodas is in the backend
\* with total 2*2 + 3*2.
C14_Witness ==
    /\ Len(orders) = 1 /\ orders[1].userId = 2
    /\ Len(orders[1].items) = 2
    /\ orders[1].items[1].quantity = 2 /\ orders[1].items[2].quantity = 2
    /\ orders[1].total = 10 /\ orders[1].status = "pending"

\* C15: handleConfirmOrder with lines in the cart and no session user starts
\* no createOrder request, sets the hash to #login and leaves the cart and
\* the saved cart as they were.
C15_NoSessionNoOrder ==
    [][ (ConfirmOrderClick /\ Len(menu.cart) > 0 /\ session = NoUser) =>
          /\ checkout' = checkout /\ orders' = orders
          /\ hash' = "#login"
          /\ menu' = menu /\ storedCart' = storedCart ]_vars

\* Nobody is logged in and a cart of lines has been confirmed: the hash is
\* #login with its hashchange queued, the menu view still holds the cart.
C15_Witness ==
    /\ session = NoUser /\ hash = "#login" /\ pending = 1
    /\ mount.view = "menu" /\ menu # NoMenu /\ Len(menu.cart) > 0
    /\ storedCart = Saved(menu.cart)
    /\ checkout.pc = "idle" /\ orders = <<>>

----------------------------------------------------------------------------
\* Properties of the views.

C17_EmptyHashShowsLogin ==
    [][ (Dispatch /\ hash = "" /\ mount = NoView) => mount'.view = "login" ]_vars

\* C18: the orders view on screen shows no order of a user other than the
\* session user, and no order at all when nobody is logged in (looked at
\* when the page is at rest).
C18_OnlyOwnOrdersShown ==
    (AtRest /\ mount.view = "orders") =>
        \A k \in mount.shown :
            session # NoUser /\ orders[k].userId = session.id

\* A handler of a menu view that changes its cart has run to its end.
CartOperation ==
    \/ AddToCart
    \/ IncreaseClick
    \/ DecreaseClick
    \/ RemoveClick
    \/ ClearAllClick
    \/ CheckoutRespond /\ checkout'.kind = "ok"

\* C19: when an add, increase, decrease, remove, clear-all or successful
\* checkout of a menu view has completed, the cart under 'shoppingCart' is
\* the cart of the menu view on screen, and loading it gives that cart back.
C19_StoredCartIsShownCart ==
    [][ (CartOperation /\ MenuOnScreen') =>
          /\ storedCart' = Saved(menu'.cart)
          /\ LoadCart(storedCart') = menu'.cart ]_vars

----------------------------------------------------------------------------
\* Properties of the user store.

\* C20: whatever register calls have run, one after another or with their
\* lookups and creations interleaved, no two records of the user store have
\* the same email.
C20_EmailsUnique ==
    \A i, j \in 1..Len(users) :
        i # j => users[i].email # users[j].email

----------------------------------------------------------------------------
\* Properties of the catalog.

\* C21: a checkout, whether its order is created or not, sends its request
\* to the orders collection only and leaves the catalog, every product's
\* stock and other fields, as it was, in the backend and in the menu view.
C21_CheckoutLeavesCatalog ==
    /\ [][ (ConfirmOrderClick \/ CheckoutRespond) =>
              /\ products' = products
              /\ menu # NoMenu => menu'.allProducts = menu.allProducts ]_vars
    /\ [](checkout.pc = "awaiting" => Collection("createOrder") = "orders")

\* One order has been created and a later one refused by the backend: the
\* catalog is the one the page was opened with, every stock at 5.
C21_Witness ==
    /\ Len(orders) = 1
    /\ checkout.pc = "done" /\ checkout.kind = "non2xx"
    /\ products = SeedProducts
    /\ \A i \in DOMAIN products : products[i].stock = 5

----------------------------------------------------------------------------
\* Properties of the login form.

\* C22: a submission of the login form whose login() succeeds is followed,
\* in the end, by the hash becoming #menu; a submission with an empty field,
\* or whose login() fails, never changes the hash; and with an empty email
\* or password login() is not called at all.
C22_LoginFormRedirects ==
    /\ (lg.pc = "returned" /\ lg.result.success) ~> (hash = "#menu")
    /\ [][ (LoginFormSubmit \/ LoginRespond
              \/ (LoginFormContinue /\ ~lg.result.success)) =>
              hash' = hash /\ pending' = pending ]_vars
    /\ [][ (LoginFormSubmit /\ lg'.result.error = EmptyFieldsMsg) =>
              lg'.pc = "idle" /\ session' = session ]_vars
    /\ [](lg.pc = "fetching" => (lg.email \notin {"", " "} /\ lg.password # ""))

\* A login from the form has succeeded and the page has gone to #menu, where
\* the menu view is on screen for the user b@x.
C22_Witness ==
    /\ hash = "#menu" /\ mount.view = "menu" /\ lg = IdleLogin
    /\ session # NoUser /\ session.email = "b@x"

\* C23: a login that fails, for an unknown email, a wrong password or a
\* failed request, leaves the stored session as it was, so a user logged in
\* before stays the session user; and neither login nor logout changes the
\* value under the cart key.
C23_FailedLoginKeepsSession ==
    /\ [][ (LoginRespond /\ ~lg'.result.success) => session' = session ]_vars
    /\ [][ (LoginFormSubmit \/ LoginRespond \/ LoginFormContinue
              \/ LogoutClick) => storedCart' = storedCart ]_vars

\* With the admin logged in and a cart saved, a login for b@x has failed:
\* the admin is still the session user and the saved cart is still there.
C23_Witness ==
    /\ lg.pc = "returned" /\ ~lg.result.success /\ lg.email = "b@x"
    /\ session # NoUser /\ session.email = "a@x"
    /\ storedCart = Saved(<<>>)
====
